---- MODULE Spec2Model ----
(***************************************************************************)
(* A model of app.py, the Personal CPI demo: the multi-encoding CSV        *)
(* decoder (read_csv_upload), the bundled reference-index reader            *)
(* (read_official_cpi_default), the ledger normalizer (clean_bill_v0) and   *)
(* the script of Page 1 that strings them together.                         *)
(*                                                                         *)
(* Text is a sequence of one-character strings, so that formatting and      *)
(* parsing are computed character by character.  A money amount is held in  *)
(* hundredths (cents).  A cell of a table is a record [k, s, n]:            *)
(*   k = "str"  a text cell, s its characters                               *)
(*   k = "num"  a float cell, n its value in cents                          *)
(*   k = "ts"   a timestamp cell, n = year*10000 + month*100 + day          *)
(*   k = "null" NaN / NaT / None                                            *)
(* A table is a record [err, cols, index, rows]: cols the column names in    *)
(* order, index the row labels, rows a sequence of functions from column     *)
(* name to cell; err is "" for a table and names the exception when an       *)
(* operation raised instead.                                                 *)
(***************************************************************************)
EXTENDS Integers, Sequences, FiniteSets, TLC

VARIABLES
    \* ---- clean_bill_v0 applied to a table, and to its own output
    T0,        \* the table handed to clean_bill_v0, as it was before the call
    T,         \* the caller's table object, as it is now
    ret1,      \* clean_bill_v0(T)
    ret2,      \* clean_bill_v0(ret1)
    cpc,       \* "in" | "once" | "twice"
    \* ---- one call of read_csv_upload
    rd,        \* the frame of the call: data, encodings, position, outcome
    attempts,  \* the pd.read_csv calls made so far, in order
    \* ---- the Page 1 script
    bill_up,   \* the uploaded ledger file, or NoFile
    cpi_up,    \* the uploaded reference-index file, or NoFile
    disk,      \* the state of the bundled file DEFAULT_CPI on disk
    pc,        \* the script's position
    bill_raw,  \* the decoded ledger
    cpi,       \* the decoded reference-index table
    cpi_source,
    bill,      \* clean_bill_v0(bill_raw)
    ui,        \* everything the page has shown, in order
    calls      \* the helper calls the script has made, in order

vars == <<T0, T, ret1, ret2, cpc, rd, attempts, bill_up, cpi_up, disk, pc,
          bill_raw, cpi, cpi_source, bill, ui, calls>>

cleanVars == <<T0, T, ret1, ret2, cpc>>
readVars == <<rd, attempts>>
pageVars == <<bill_up, cpi_up, disk, pc, bill_raw, cpi, cpi_source, bill, ui, calls>>

\* ------------------------------------------------------------------ bounds

\* The longest table clean_bill_v0 is applied to.
MaxRows == 2
\* The longest byte buffer handed to read_csv_upload.
MaxBytes == 2
\* The longest encoding list handed to read_csv_upload.
MaxEncs == 3

\* ------------------------------------------------------------------ text

Range(s) == {s[i] : i \in DOMAIN s}

DigitChars == <<"0", "1", "2", "3", "4", "5", "6", "7", "8", "9">>

IsDigit(c) == \E d \in 1..10 : DigitChars[d] = c

DigitVal(c) == (CHOOSE d \in 1..10 : DigitChars[d] = c) - 1

AllDigits(s) == \A i \in DOMAIN s : IsDigit(s[i])

\* int("0123") for a sequence of digit characters
RECURSIVE ParseNat(_)
ParseNat(s) ==
    IF s = <<>> THEN 0
    ELSE ParseNat(SubSeq(s, 1, Len(s) - 1)) * 10 + DigitVal(s[Len(s)])

\* str(n) for n >= 0
RECURSIVE NatStr(_)
NatStr(n) ==
    IF n < 10 THEN <<DigitChars[n + 1]>>
    ELSE NatStr(n \div 10) \o <<DigitChars[(n % 10) + 1]>>

\* zero-padding on the left to width w, as %Y and %m pad
RECURSIVE ZeroPad(_, _)
ZeroPad(s, w) == IF Len(s) >= w THEN s ELSE ZeroPad(<<"0">> \o s, w)

\* ------------------------------------------------------------------ cells

Str(s) == [k |-> "str", s |-> s, n |-> 0]
Num(n) == [k |-> "num", s |-> <<>>, n |-> n]
Ts(y, m, d) == [k |-> "ts", s |-> <<>>, n |-> y * 10000 + m * 100 + d]
Null == [k |-> "null", s |-> <<>>, n |-> 0]

YearOf(c) == c.n \div 10000
MonthOf(c) == (c.n \div 100) % 100
DayOf(c) == c.n % 100

notna(c) == c.k # "null"

IsLeap(y) == (y % 4 = 0 /\ y % 100 # 0) \/ y % 400 = 0

DaysInMonth(y, m) ==
    IF m = 2 THEN (IF IsLeap(y) THEN 29 ELSE 28)
    ELSE IF m \in {4, 6, 9, 11} THEN 30 ELSE 31

\* The timestamp an ISO date text YYYY-MM-DD denotes, NaT for any other text
\* and for a date the calendar does not have.
ParseDateText(s) ==
    IF /\ Len(s) = 10
       /\ s[5] = "-"
       /\ s[8] = "-"
       /\ AllDigits(SubSeq(s, 1, 4))
       /\ AllDigits(SubSeq(s, 6, 7))
       /\ AllDigits(SubSeq(s, 9, 10))
    THEN LET y == ParseNat(SubSeq(s, 1, 4))
             m == ParseNat(SubSeq(s, 6, 7))
             d == ParseNat(SubSeq(s, 9, 10))
         IN  IF y >= 1 /\ m \in 1..12 /\ d >= 1 /\ d <= DaysInMonth(y, m)
             THEN Ts(y, m, d)
             ELSE Null
    ELSE Null

\* pd.to_datetime(x, errors="coerce") on one cell: a timestamp stays, a text
\* is parsed, a number counts nanoseconds from 1970-01-01, anything that
\* fails becomes NaT.
to_datetime(c) ==
    CASE c.k = "ts" -> c
      [] c.k = "str" -> ParseDateText(c.s)
      [] c.k = "num" -> Ts(1970, 1, 1)
      [] OTHER -> Null

\* The position of the first "." of s, 0 when it has none.
DotAt(s) ==
    IF \E i \in DOMAIN s : s[i] = "."
    THEN CHOOSE i \in DOMAIN s : s[i] = "." /\ \A j \in 1..(i - 1) : s[j] # "."
    ELSE 0

\* The number a decimal text [+-]digits[.digits] denotes, in cents; NaN for
\* any other text.  The model holds amounts to two decimals, so the texts it
\* draws have at most two.
ParseDecimalText(s) ==
    LET neg == s # <<>> /\ s[1] = "-"
        body == IF s # <<>> /\ s[1] \in {"-", "+"} THEN Tail(s) ELSE s
        dot == DotAt(body)
        ip == IF dot = 0 THEN body ELSE SubSeq(body, 1, dot - 1)
        fp == IF dot = 0 THEN <<>> ELSE SubSeq(body, dot + 1, Len(body))
        frac == IF Len(fp) = 0 THEN 0
                ELSE IF Len(fp) = 1 THEN ParseNat(fp) * 10
                ELSE ParseNat(fp)
    IN  IF ip # <<>> /\ AllDigits(ip) /\ AllDigits(fp) /\ Len(fp) <= 2
        THEN Num((IF neg THEN -1 ELSE 1) * (ParseNat(ip) * 100 + frac))
        ELSE Null

\* pd.to_numeric(x, errors="coerce") on one cell.  The amount column never
\* holds a timestamp, which is left out of the cases.
to_numeric(c) ==
    CASE c.k = "num" -> c
      [] c.k = "str" -> ParseDecimalText(c.s)
      [] OTHER -> Null

\* Mutant of abs: the sign is left as it was.
abs_kept_sign(c) == c

\* Mutant of abs: the sign is flipped instead of removed.
abs_negated(c) == IF c.k = "num" THEN Num(-c.n) ELSE c

\* Series.abs() on one cell
abs(c) == IF c.k = "num" /\ c.n < 0 THEN Num(-c.n) ELSE c

\* repr of a float held in cents: 700 -> "7.0", -1250 -> "-12.5", 1205 -> "12.05"
FloatStr(n) ==
    LET a == IF n < 0 THEN -n ELSE n
        f == a % 100
        fs == IF f % 10 = 0 THEN NatStr(f \div 10) ELSE ZeroPad(NatStr(f), 2)
    IN  (IF n < 0 THEN <<"-">> ELSE <<>>) \o NatStr(a \div 100) \o <<".">> \o fs

\* "%Y-%m-%d" of a timestamp
DateStr(c) ==
    ZeroPad(NatStr(YearOf(c)), 4) \o <<"-">> \o ZeroPad(NatStr(MonthOf(c)), 2)
        \o <<"-">> \o ZeroPad(NatStr(DayOf(c)), 2)

\* Series.astype(str) on one cell: a text stays, a null becomes "nan"
astype_str(c) ==
    CASE c.k = "str" -> c
      [] c.k = "num" -> Str(FloatStr(c.n))
      [] c.k = "ts" -> Str(DateStr(c))
      [] OTHER -> Str(<<"n", "a", "n">>)

\* Mutant of month_str: the day is formatted where the month belongs.
month_str_of_day(c) ==
    Str(ZeroPad(NatStr(YearOf(c)), 4) \o <<"-">> \o ZeroPad(NatStr(DayOf(c)), 2))

\* Series.dt.to_period("M").astype(str) on one timestamp: "YYYY-MM"
month_str(c) ==
    Str(ZeroPad(NatStr(YearOf(c)), 4) \o <<"-">> \o ZeroPad(NatStr(MonthOf(c)), 2))

\* ------------------------------------------------------------------ tables

Frame(cols, index, rows) == [err |-> "", cols |-> cols, index |-> index, rows |-> rows]

\* A table as pd.read_csv builds it: the rows are labelled 0, 1, 2, ...
Table(cols, rows) == Frame(cols, [i \in 1..Len(rows) |-> i - 1], rows)

\* What a call leaves when it raised instead of returning a table.
Raised(e) == [err |-> e, cols |-> <<>>, index |-> <<>>, rows |-> <<>>]

\* A variable that holds no table yet.
None == Raised("None")

columns(df) == Range(df.cols)

len(df) == Len(df.rows)

\* df[dst] = vals, row by row, vals being computed from df[src]: a KeyError
\* when df has no such column.  A new column goes after the last one.
AssignColumn(df, dst, src, vals) ==
    IF df.err # "" THEN df
    ELSE IF src \notin columns(df) THEN Raised("KeyError")
    ELSE Frame(IF dst \in columns(df) THEN df.cols ELSE Append(df.cols, dst),
               df.index,
               [i \in DOMAIN df.rows |->
                    [c \in columns(df) \cup {dst} |->
                        IF c = dst THEN vals[i] ELSE df.rows[i][c]]])

\* Mutant of dropna: how="all", a row goes only when the whole subset is null.
dropna_how_all(df, subset) ==
    IF df.err # "" THEN df
    ELSE IF ~(subset \subseteq columns(df)) THEN Raised("KeyError")
    ELSE LET kept == SelectSeq([i \in DOMAIN df.rows |-> i],
                               LAMBDA i : \E c \in subset : notna(df.rows[i][c]))
         IN  Frame(df.cols,
                   [j \in DOMAIN kept |-> df.index[kept[j]]],
                   [j \in DOMAIN kept |-> df.rows[kept[j]]])

\* df.dropna(subset=...): the rows with no null in the subset, in order and
\* under their labels
dropna(df, subset) ==
    IF df.err # "" THEN df
    ELSE IF ~(subset \subseteq columns(df)) THEN Raised("KeyError")
    ELSE LET kept == SelectSeq([i \in DOMAIN df.rows |-> i],
                               LAMBDA i : \A c \in subset : notna(df.rows[i][c]))
         IN  Frame(df.cols,
                   [j \in DOMAIN kept |-> df.index[kept[j]]],
                   [j \in DOMAIN kept |-> df.rows[kept[j]]])

\* ------------------------------------------------------------ clean_bill_v0

needed == {"time", "merchant", "amount"}

\* Mutant of has_needed: one of the columns is taken to be enough.
has_some_needed(df) == needed \cap columns(df) # {}

\* needed.issubset(set(df.columns))
has_needed(df) == needed \subseteq columns(df)

\* df.copy(): a new object with the same content (alias: whether the local
\* name still denotes the caller's object)
df_copy(df) == [alias |-> FALSE, t |-> df]

coerce_time(df) ==
    AssignColumn(df, "time", "time",
                 [i \in DOMAIN df.rows |-> to_datetime(df.rows[i]["time"])])

coerce_amount(df) ==
    AssignColumn(df, "amount", "amount",
                 [i \in DOMAIN df.rows |-> to_numeric(df.rows[i]["amount"])])

\* Mutant of drop_unparsed: the amount is left out of the subset.
drop_unparsed_time(df) == dropna(df, {"time"})

drop_unparsed(df) == dropna(df, {"time", "amount"})

abs_amount(df) ==
    AssignColumn(df, "amount", "amount",
                 [i \in DOMAIN df.rows |-> abs(df.rows[i]["amount"])])

add_month(df) ==
    AssignColumn(df, "month", "time",
                 [i \in DOMAIN df.rows |-> month_str(df.rows[i]["time"])])

merchant_as_str(df) ==
    AssignColumn(df, "merchant", "merchant",
                 [i \in DOMAIN df.rows |-> astype_str(df.rows[i]["merchant"])])

\* One call of clean_bill_v0: what it returns (ret) and what the caller's own
\* table is afterwards (arg).  Lines 44-45 assign into the local object,
\* line 46 rebinds the local name to a new object.
clean_call(df) ==
    LET local == df_copy(df)
        s45 == coerce_amount(coerce_time(local.t))
        s46 == drop_unparsed(s45)
        s55 == merchant_as_str(add_month(abs_amount(s46)))
    IN  IF ~has_needed(local.t)
        THEN [ret |-> local.t, arg |-> df]
        ELSE [ret |-> s55, arg |-> IF local.alias THEN s45 ELSE df]

clean_bill_v0(df) == clean_call(df).ret

\* ------------------------------------------------------- the tables drawn

TimeCells ==
    { Str(<<"2", "0", "2", "5", "-", "0", "3", "-", "0", "5">>),
      Str(<<"2", "0", "2", "5", "-", "0", "3", "-", "3", "1">>),
      Str(<<"2", "0", "2", "4", "-", "0", "3", "-", "0", "5">>),
      Str(<<"2", "0", "2", "5", "-", "0", "2", "-", "3", "0">>),
      Str(<<"b", "a", "d", "-", "d", "a", "t", "e">>) }

AmountCells ==
    { Str(<<"-", "1", "2", ".", "5", "0">>),
      Str(<<"5">>),
      Str(<<"a", "b", "c">>),
      Null }

MerchantCells == { Str(<<"C", "a", "f", "e">>), Num(700), Null }

NoteCells == { Str(<<"x">>) }

ColumnChoices ==
    { <<"time", "merchant", "amount">>,
      <<"time", "amount">>,
      <<"time", "merchant">>,
      <<"merchant", "amount">>,
      <<"note", "amount">> }

RowsOver(cs) ==
    { [c \in Range(cs) |->
          CASE c = "time" -> t
            [] c = "amount" -> a
            [] c = "merchant" -> m
            [] OTHER -> x]
      : t \in TimeCells, a \in AmountCells, m \in MerchantCells, x \in NoteCells }


\* ------------------------------------------- clean_bill_v0, applied twice

IdleClean == T0 = None /\ T = None /\ ret1 = None /\ ret2 = None /\ cpc = "idle"

InitCleanVars ==
    /\ \E cs \in ColumnChoices, n \in 0..MaxRows :
           \E rows \in [1..n -> RowsOver(cs)] : T0 = Table(cs, rows)
    /\ T = T0
    /\ ret1 = None
    /\ ret2 = None
    /\ cpc = "in"

\* ret1 = clean_bill_v0(T)
CleanOnce ==
    /\ cpc = "in"
    /\ ret1' = clean_call(T).ret
    /\ T' = clean_call(T).arg
    /\ cpc' = "once"
    /\ UNCHANGED <<T0, ret2, readVars, pageVars>>

\* ret2 = clean_bill_v0(ret1)
CleanTwice ==
    /\ cpc = "once"
    /\ ret2' = clean_call(ret1).ret
    /\ ret1' = clean_call(ret1).arg
    /\ cpc' = "twice"
    /\ UNCHANGED <<T0, T, readVars, pageVars>>

\* -------------------------------------------------------- read_csv_upload

\* An uploaded file is a record [data, csv]: data its bytes, csv the table its
\* text tokenizes to once the bytes are decoded.  The bytes are a sequence of
\* byte groups, each of one class:
\*   "A"  an ASCII character: decodes under every encoding
\*   "U"  a UTF-8 multi-byte character whose bytes are also a valid GB18030
\*        sequence: decodes under every encoding, to different text
\*   "V"  a UTF-8 multi-byte character whose bytes are no GB18030 sequence
\*   "G"  a GB18030 double-byte character whose bytes are no UTF-8 sequence
\*   "X"  a byte that no encoding decodes
ByteClasses == {"A", "U", "V", "G", "X"}

NoFile == [data |-> <<>>, csv |-> None, present |-> FALSE]

File(data, csv) == [data |-> data, csv |-> csv, present |-> TRUE]

\* pd.read_csv called without an encoding reads UTF-8.
Default == "<default>"

Family(enc) == IF enc = "gb18030" THEN "gb" ELSE "utf"

Decodable(b, enc) ==
    CASE b \in {"A", "U"} -> TRUE
      [] b = "V" -> Family(enc) = "utf"
      [] b = "G" -> Family(enc) = "gb"
      [] OTHER -> FALSE

\* The character a byte group decodes to: the same for an ASCII character
\* under every encoding, and one per family of encodings otherwise.
DecodedChar(b, enc) == IF b = "A" THEN <<b, "ascii">> ELSE <<b, Family(enc)>>

\* pd.read_csv(BytesIO(data), encoding=enc): an empty buffer has no columns
\* to parse, undecodable bytes raise, and otherwise the table is returned.
pd_read_csv(file, enc) ==
    IF file.data = <<>>
    THEN [exc |-> "EmptyDataError", msg |-> <<"No columns to parse from file">>,
          text |-> <<>>, df |-> None]
    ELSE IF \E i \in DOMAIN file.data : ~Decodable(file.data[i], enc)
    THEN [exc |-> "UnicodeDecodeError", msg |-> <<"codec can't decode bytes">>,
          text |-> <<>>, df |-> None]
    ELSE [exc |-> "", msg |-> <<>>,
          text |-> [i \in DOMAIN file.data |-> DecodedChar(file.data[i], enc)],
          df |-> file.csv]

\* The frame of no call.
NoCall == [st |-> "idle", file |-> NoFile, encodings |-> <<>>, i |-> 0,
           value |-> pd_read_csv(NoFile, Default)]

\* Entering read_csv_upload(uploaded_file, encodings)
call_read_csv_upload(file, encodings) ==
    [st |-> "loop", file |-> file, encodings |-> encodings, i |-> 1,
     value |-> pd_read_csv(NoFile, Default)]

\* Mutant of candidate: the list is walked from its end.
candidate_from_end(encodings, i) == encodings[Len(encodings) - i + 1]

\* for enc in encodings: the candidate of the i-th iteration
candidate(encodings, i) == encodings[i]

\* Mutant of except_continue: the candidate's exception leaves the function.
except_reraise(frame) ==
    [frame EXCEPT !.st = "raised",
                  !.value = pd_read_csv(frame.file, frame.encodings[frame.i])]

\* except Exception: continue
except_continue(frame) == [frame EXCEPT !.i = @ + 1]

\* One iteration of the loop: try: return pd.read_csv(...) except: continue
TryEncoding ==
    /\ rd.st = "loop"
    /\ rd.i <= Len(rd.encodings)
    /\ LET enc == candidate(rd.encodings, rd.i)
           r == pd_read_csv(rd.file, enc)
       IN  /\ attempts' = Append(attempts, enc)
           /\ rd' = IF r.exc = ""
                    THEN [rd EXCEPT !.st = "returned", !.value = r]
                    ELSE except_continue(rd)
    /\ UNCHANGED <<cleanVars, pageVars>>

\* After the loop: return pd.read_csv(BytesIO(data)); what it raises leaves
\* the function.
LastResort ==
    /\ rd.st = "loop"
    /\ rd.i > Len(rd.encodings)
    /\ LET r == pd_read_csv(rd.file, Default)
       IN  /\ attempts' = Append(attempts, Default)
           /\ rd' = [rd EXCEPT !.st = IF r.exc = "" THEN "returned" ELSE "raised",
                               !.value = r]
    /\ UNCHANGED <<cleanVars, pageVars>>

Encodings == {"gb18030", "utf-8-sig", "utf-8"}

ByteBuffers == UNION { [1..n -> ByteClasses] : n \in 0..MaxBytes }

EncodingLists == UNION { [1..n -> Encodings] : n \in 0..MaxEncs }

\* The table the files of the decoder's own runs hold.
OneRowTable ==
    Table(<<"time", "merchant", "amount">>,
          << [c \in needed |->
                 CASE c = "time" -> Str(<<"2", "0", "2", "5", "-", "0", "3", "-", "0", "5">>)
                   [] c = "merchant" -> Str(<<"C", "a", "f", "e">>)
                   [] OTHER -> Num(-1250)] >>)

InitReadVars ==
    /\ \E d \in ByteBuffers, es \in EncodingLists :
           rd = call_read_csv_upload(File(d, OneRowTable), es)
    /\ attempts = <<>>

IdleRead == rd = NoCall /\ attempts = <<>>

\* ----------------------------------------------- read_official_cpi_default

\* DEFAULT_CPI.name
DEFAULT_CPI == "official_cpi_mom_2024-11_2025-11_long.csv"

\* read_official_cpi_default(path), file being what the path holds on disk
read_official_cpi_default(file) ==
    IF ~file.present
    THEN [exc |-> "FileNotFoundError",
          msg |-> <<"official CPI file not found: ", DEFAULT_CPI,
                    "; make sure it is deployed with the app">>,
          text |-> <<>>, df |-> None]
    ELSE pd_read_csv(file, "utf-8-sig")

\* ------------------------------------------------------------- Page 1

Show(kind, label, body) == [kind |-> kind, label |-> label, body |-> body]

\* Mutant of st_stop: the script goes on after the error message.
st_no_stop(next) == next

\* st.stop() ends the run; next is where the script would go on otherwise.
st_stop(next) == "stopped"

\* An exception nothing catches ends the run.
uncaught == "crashed"

Column(df, c) == [i \in DOMAIN df.rows |-> df.rows[i][c]]

\* max(len(bill_raw) - len(bill), 0)
bad_rows(raw, cleaned) ==
    IF len(raw) - len(cleaned) > 0 THEN len(raw) - len(cleaned) ELSE 0

\* pd.api.types.is_numeric_dtype(df[c]): a column of floats and NaN
is_numeric_dtype(df, c) == \A i \in DOMAIN df.rows : df.rows[i][c].k \in {"num", "null"}

RECURSIVE SumCents(_)
SumCents(col) ==
    IF col = <<>> THEN 0
    ELSE (IF Head(col).k = "num" THEN Head(col).n ELSE 0) + SumCents(Tail(col))

\* Lines 86-93: no ledger uploaded: a warning and st.stop(); otherwise
\* read_csv_upload(bill_up) is entered with its default encodings.
Start ==
    /\ pc = "start"
    /\ IF ~bill_up.present
       THEN /\ ui' = Append(ui, Show("warning", "upload", <<"upload a ledger CSV first">>))
            /\ pc' = st_stop("read_bill")
            /\ UNCHANGED <<rd, attempts, calls>>
       ELSE /\ rd' = call_read_csv_upload(bill_up, <<"gb18030", "utf-8-sig", "utf-8">>)
            /\ attempts' = <<>>
            /\ calls' = Append(calls, "read_csv_upload(bill_up)")
            /\ pc' = "read_bill"
            /\ UNCHANGED ui
    /\ UNCHANGED <<cleanVars, bill_up, cpi_up, disk, bill_raw, cpi, cpi_source, bill>>

\* Lines 92-96: the call returns into bill_raw, or its exception is shown
\* and the run stops.
BillRead ==
    /\ pc = "read_bill"
    /\ rd.st \in {"returned", "raised"}
    /\ IF rd.st = "returned"
       THEN /\ bill_raw' = rd.value.df
            /\ pc' = "read_cpi"
            /\ UNCHANGED ui
       ELSE /\ ui' = Append(ui, Show("error", "bill", <<"ledger CSV read failed: ">> \o rd.value.msg))
            /\ pc' = st_stop("read_cpi")
            /\ UNCHANGED bill_raw
    /\ UNCHANGED <<cleanVars, readVars, bill_up, cpi_up, disk, cpi, cpi_source, bill, calls>>

\* Lines 99-101: an uploaded reference-index file is read by read_csv_upload
\* with the Unicode encodings first.
ReadCpiUpload ==
    /\ pc = "read_cpi"
    /\ cpi_up.present
    /\ rd' = call_read_csv_upload(cpi_up, <<"utf-8-sig", "utf-8", "gb18030">>)
    /\ attempts' = <<>>
    /\ calls' = Append(calls, "read_csv_upload(cpi_up)")
    /\ pc' = "read_cpi_upload"
    /\ UNCHANGED <<cleanVars, bill_up, cpi_up, disk, bill_raw, cpi, cpi_source, bill, ui>>

\* Lines 101-110, the upload's branch: the table and its source, and the
\* success line; or the error and st.stop().
CpiUploadRead ==
    /\ pc = "read_cpi_upload"
    /\ rd.st \in {"returned", "raised"}
    /\ IF rd.st = "returned"
       THEN /\ cpi' = rd.value.df
            /\ cpi_source' = "upload"
            /\ ui' = Append(ui, Show("success", "sources", <<"upload", "upload">>))
            /\ pc' = "clean"
       ELSE /\ ui' = Append(ui, Show("error", "cpi", <<"official CPI read failed: ">> \o rd.value.msg))
            /\ pc' = st_stop("clean")
            /\ UNCHANGED <<cpi, cpi_source>>
    /\ UNCHANGED <<cleanVars, readVars, bill_up, cpi_up, disk, bill_raw, bill, calls>>

\* Lines 103-110, no upload: read_official_cpi_default(DEFAULT_CPI)
ReadCpiDefault ==
    /\ pc = "read_cpi"
    /\ ~cpi_up.present
    /\ calls' = Append(calls, "read_official_cpi_default")
    /\ LET r == read_official_cpi_default(disk)
       IN  IF r.exc = ""
           THEN /\ cpi' = r.df
                /\ cpi_source' = DEFAULT_CPI
                /\ ui' = Append(ui, Show("success", "sources", <<"upload", DEFAULT_CPI>>))
                /\ pc' = "clean"
           ELSE /\ ui' = Append(ui, Show("error", "cpi", <<"official CPI read failed: ">> \o r.msg))
                /\ pc' = st_stop("clean")
                /\ UNCHANGED <<cpi, cpi_source>>
    /\ UNCHANGED <<cleanVars, readVars, bill_up, cpi_up, disk, bill_raw, bill>>

\* Line 113: bill = clean_bill_v0(bill_raw)
Clean ==
    /\ pc = "clean"
    /\ calls' = Append(calls, "clean_bill_v0")
    /\ bill' = clean_call(bill_raw).ret
    /\ bill_raw' = clean_call(bill_raw).arg
    /\ pc' = IF clean_call(bill_raw).ret.err = "" THEN "metric_time" ELSE uncaught
    /\ UNCHANGED <<cleanVars, readVars, bill_up, cpi_up, disk, cpi, cpi_source, ui>>

\* Lines 118-125: the time coverage.  bill["time"].min() of a column that was
\* not coerced is a text or a number, which has no .date(): the exception
\* leaves the script.
MetricTime ==
    /\ pc = "metric_time"
    /\ IF "time" \in columns(bill) /\ \E i \in DOMAIN bill.rows : notna(bill.rows[i]["time"])
       THEN LET seen == {c \in Range(Column(bill, "time")) : notna(c)}
                start == CHOOSE c \in seen : \A o \in seen : c.n <= o.n
                end == CHOOSE c \in seen : \A o \in seen : c.n >= o.n
                months == IF "month" \in columns(bill)
                          THEN Cardinality(Range(Column(bill, "month")))
                          ELSE 0
            IN  IF \A c \in seen : c.k = "ts"
                THEN /\ ui' = Append(ui, Show("metric", "time", <<DateStr(start), DateStr(end), months>>))
                     /\ pc' = "metric_size"
                ELSE /\ ui' = Append(ui, Show("exception", "time", <<"AttributeError">>))
                     /\ pc' = uncaught
       ELSE /\ ui' = Append(ui, Show("metric", "time", <<"unparsed">>))
            /\ pc' = "metric_size"
    /\ UNCHANGED <<cleanVars, readVars, bill_up, cpi_up, disk, bill_raw, cpi, cpi_source, bill, calls>>

\* Lines 127-132: the sample size and the total
MetricSize ==
    /\ pc = "metric_size"
    /\ ui' = Append(ui,
                IF "amount" \in columns(bill) /\ is_numeric_dtype(bill, "amount")
                THEN Show("metric", "size", <<len(bill), SumCents(Column(bill, "amount"))>>)
                ELSE Show("metric", "size", <<"unparsed">>))
    /\ pc' = "metric_quality"
    /\ UNCHANGED <<cleanVars, readVars, bill_up, cpi_up, disk, bill_raw, cpi, cpi_source, bill, calls>>

\* Lines 134-136: the reject count
MetricQuality ==
    /\ pc = "metric_quality"
    /\ ui' = Append(ui, Show("metric", "quality", <<bad_rows(bill_raw, bill)>>))
    /\ pc' = "preview"
    /\ UNCHANGED <<cleanVars, readVars, bill_up, cpi_up, disk, bill_raw, cpi, cpi_source, bill, calls>>

\* Lines 138-144: the two previews
Preview ==
    /\ pc = "preview"
    /\ ui' = ui \o << Show("dataframe", "bill", <<bill.cols, len(bill)>>),
                      Show("dataframe", "cpi", <<cpi.cols, len(cpi)>>) >>
    /\ pc' = "advisory"
    /\ UNCHANGED <<cleanVars, readVars, bill_up, cpi_up, disk, bill_raw, cpi, cpi_source, bill, calls>>

\* Lines 146-151: the advisory about the column names
Advisory ==
    /\ pc = "advisory"
    /\ ui' = IF ~(needed \subseteq columns(bill))
             THEN Append(ui, Show("warning", "columns", <<"columns are not time/merchant/amount">>))
             ELSE ui
    /\ pc' = "done"
    /\ UNCHANGED <<cleanVars, readVars, bill_up, cpi_up, disk, bill_raw, cpi, cpi_source, bill, calls>>

\* -------------------------------------------------- the page's inputs

Date0305 == Str(<<"2", "0", "2", "5", "-", "0", "3", "-", "0", "5">>)
Date0331 == Str(<<"2", "0", "2", "5", "-", "0", "3", "-", "3", "1">>)
BadDate == Str(<<"b", "a", "d", "-", "d", "a", "t", "e">>)
Cafe == Str(<<"C", "a", "f", "e">>)

Row(t, m, a) ==
    [c \in needed |-> CASE c = "time" -> t [] c = "merchant" -> m [] OTHER -> a]

AllColumns == <<"time", "merchant", "amount">>

\* The ledgers uploaded to the page: Scenario A of the specification, a
\* ledger with no row that parses, a ledger read with a numeric amount column
\* and an empty merchant, and ledgers that lack one or all of the columns.
PageTables ==
    { Table(AllColumns,
            << Row(Date0305, Cafe, Str(<<"-", "1", "2", ".", "5", "0">>)),
               Row(BadDate, Str(<<"X">>), Str(<<"5">>)) >>),
      Table(AllColumns, << Row(BadDate, Cafe, Str(<<"a", "b", "c">>)) >>),
      Table(AllColumns, << Row(Date0331, Null, Num(500)), Row(Date0305, Cafe, Num(-4250)) >>),
      Table(<<"time", "merchant">>, << [c \in {"time", "merchant"} |-> IF c = "time" THEN Date0305 ELSE Cafe] >>),
      Table(<<"time", "amount">>, << [c \in {"time", "amount"} |-> IF c = "time" THEN Null ELSE Num(500)] >>),
      Table(<<"merchant", "amount">>, << [c \in {"merchant", "amount"} |-> IF c = "merchant" THEN Cafe ELSE Str(<<"5">>)] >>),
      Table(<<"date", "shop", "money">>,
            << [c \in {"date", "shop", "money"} |->
                   CASE c = "date" -> Date0305 [] c = "shop" -> Cafe [] OTHER -> Num(500)] >>) }

CpiTable ==
    Table(<<"month", "category", "mom_index">>,
          << [c \in {"month", "category", "mom_index"} |->
                 CASE c = "month" -> Str(<<"2", "0", "2", "5", "-", "0", "3">>)
                   [] c = "category" -> Str(<<"f", "o", "o", "d">>)
                   [] OTHER -> Num(10020)] >>)

\* The byte buffers of the page's files: empty, or one byte group.
PageBuffers == { <<>> } \cup { <<b>> : b \in ByteClasses }

IdlePage ==
    /\ bill_up = NoFile /\ cpi_up = NoFile /\ disk = NoFile
    /\ pc = "idle"
    /\ bill_raw = None /\ cpi = None /\ cpi_source = "" /\ bill = None
    /\ ui = <<>> /\ calls = <<>>

InitPageVars ==
    /\ bill_up \in {NoFile} \cup { File(d, t) : d \in PageBuffers, t \in PageTables }
    /\ cpi_up \in {NoFile} \cup { File(d, CpiTable) : d \in PageBuffers }
    /\ disk \in {NoFile, File(<<"A">>, CpiTable), File(<<"G">>, CpiTable)}
    /\ pc = "start"
    /\ bill_raw = None /\ cpi = None /\ cpi_source = "" /\ bill = None
    /\ ui = <<>> /\ calls = <<>>

\* ------------------------------------------------------ specifications

\* One run of the Page 1 script
Init == IdleClean /\ IdleRead /\ InitPageVars

Next ==
    \/ Start
    \/ TryEncoding
    \/ LastResort
    \/ BillRead
    \/ ReadCpiUpload
    \/ CpiUploadRead
    \/ ReadCpiDefault
    \/ Clean
    \/ MetricTime
    \/ MetricSize
    \/ MetricQuality
    \/ Preview
    \/ Advisory

Spec == Init /\ [][Next]_vars

\* clean_bill_v0 on a table, then on its own output
InitClean == InitCleanVars /\ IdleRead /\ IdlePage

NextClean == CleanOnce \/ CleanTwice

SpecClean == InitClean /\ [][NextClean]_vars

\* One call of read_csv_upload
InitRead == IdleClean /\ InitReadVars /\ IdlePage

NextRead == TryEncoding \/ LastResort

SpecRead == InitRead /\ [][NextRead]_vars

\* ============================================================ properties

\* A table without a time, a merchant or an amount column.
LacksColumn(df) == \E c \in {"time", "merchant", "amount"} : c \notin columns(df)

\* A row whose time and amount both parse.
ParsesBoth(r) == notna(to_datetime(r["time"])) /\ notna(to_numeric(r["amount"]))

\* The source row of the j-th row of clean_bill_v0's output, by its label.
SourceRow(j) == T0.rows[ret1.index[j] + 1]

AbsInt(n) == IF n < 0 THEN -n ELSE n

\* C1: a table that lacks one of time, merchant, amount comes back from
\* clean_bill_v0 exactly as it went in (same columns, same rows in the same
\* order, same values, no month column, no row dropped), and the caller's
\* table is not mutated.
C1_Passthrough ==
    (cpc # "in" /\ LacksColumn(T0)) =>
        /\ ret1 = T0
        /\ "month" \notin columns(ret1)
        /\ len(ret1) = len(T0)
        /\ T = T0

C1_Witness ==
    /\ cpc = "once"
    /\ columns(T0) = {"time", "amount"}
    /\ len(T0) = 2
    /\ ~notna(to_datetime(T0.rows[1]["time"]))
    /\ ret1 = T0

\* C2: on a table with the three columns, the output holds exactly the input
\* rows whose time and amount both parse, in input order, and no output row
\* has a null time or a null amount.
C2_SurvivorsExactly ==
    (cpc # "in" /\ ~LacksColumn(T0)) =>
        /\ ret1.err = ""
        /\ ret1.index = SelectSeq(T0.index, LAMBDA x : ParsesBoth(T0.rows[x + 1]))
        /\ Len(ret1.rows) = Len(ret1.index)
        /\ \A j \in DOMAIN ret1.rows :
               /\ ret1.rows[j]["time"] = to_datetime(SourceRow(j)["time"])
               /\ notna(ret1.rows[j]["time"])
               /\ notna(ret1.rows[j]["amount"])

C2_Witness ==
    /\ cpc = "once"
    /\ ~LacksColumn(T0)
    /\ len(T0) = 2
    /\ ~ParsesBoth(T0.rows[1])
    /\ ParsesBoth(T0.rows[2])
    /\ ret1.index = <<1>>

\* C3: every row that survives has an amount >= 0, the absolute value of the
\* parsed source amount, whatever the sign of the source.
C3_SignNormalized ==
    (cpc # "in" /\ ~LacksColumn(T0)) =>
        \A j \in DOMAIN ret1.rows :
            /\ ret1.rows[j]["amount"].k = "num"
            /\ ret1.rows[j]["amount"].n >= 0
            /\ ret1.rows[j]["amount"].n = AbsInt(to_numeric(SourceRow(j)["amount"]).n)

C3_Witness ==
    /\ cpc = "once"
    /\ ~LacksColumn(T0)
    /\ len(ret1) = 2
    /\ to_numeric(SourceRow(1)["amount"]).n = -1250
    /\ to_numeric(SourceRow(2)["amount"]).n = 500
    /\ ret1.rows[1]["amount"] = Num(1250)
    /\ ret1.rows[2]["amount"] = Num(500)

\* C4: clean_bill_v0 applied to its own output returns that output: no row is
\* dropped, time, amount and merchant are unchanged (a null merchant that
\* the first pass made a text included) and month is the same.
C4_Idempotent ==
    (cpc = "twice" /\ ~LacksColumn(T0)) => ret2 = ret1

C4_Witness ==
    /\ cpc = "twice"
    /\ ~LacksColumn(T0)
    /\ len(ret2) = 2
    /\ T0.rows[1]["merchant"] = Null
    /\ ret2.rows[1]["merchant"] = Str(<<"n", "a", "n">>)
    /\ T0.rows[2]["merchant"] = Num(700)
    /\ ret2 = ret1

\* The rows of a table whose time or amount fails to parse; a column the
\* table does not have fails for no row.
FailsToParse(df, i) ==
    \/ "time" \in columns(df) /\ ~notna(to_datetime(df.rows[i]["time"]))
    \/ "amount" \in columns(df) /\ ~notna(to_numeric(df.rows[i]["amount"]))

Rejected(df) == {i \in DOMAIN df.rows : FailsToParse(df, i)}

\* C5 as stated: for every input table the output is no longer than the
\* input, as long exactly when every row's time and amount parse, and the
\* reject count is the number of rows whose time or amount failed to parse.
C5_AsStated ==
    cpc # "in" =>
        /\ len(ret1) <= len(T0)
        /\ (len(ret1) = len(T0)) <=> (Rejected(T0) = {})
        /\ bad_rows(T0, ret1) = Cardinality(Rejected(T0))

\* C5, amended: the output is never longer than the input; on a table with
\* the three columns it is as long exactly when every row's time and amount
\* parse, and the reject count is the number of rows whose time or amount
\* failed to parse; on a table that lacks one of the columns nothing is
\* parsed, the output is as long as the input and the reject count is 0.
C5_RowCount ==
    cpc # "in" =>
        /\ len(ret1) <= len(T0)
        /\ bad_rows(T0, ret1) >= 0
        /\ bad_rows(T0, ret1) = len(T0) - len(ret1)
        /\ ~LacksColumn(T0) =>
               /\ (len(ret1) = len(T0)) <=> (Rejected(T0) = {})
               /\ bad_rows(T0, ret1) = Cardinality(Rejected(T0))
        /\ LacksColumn(T0) =>
               /\ len(ret1) = len(T0)
               /\ bad_rows(T0, ret1) = 0

C5_Witness ==
    /\ cpc = "once"
    /\ ~LacksColumn(T0)
    /\ len(T0) = 2
    /\ Rejected(T0) = {2}
    /\ bad_rows(T0, ret1) = 1

\* C10: the month of a surviving row is a text YYYY-MM fixed by the year and
\* the month of the row's time alone: two rows of the same calendar month
\* have the same text (March 2025 gives "2025-03" on any day), two rows of
\* different months or years have different texts.
C10_MonthKey ==
    (cpc # "in" /\ ~LacksColumn(T0)) =>
        /\ \A j \in DOMAIN ret1.rows :
               LET mo == ret1.rows[j]["month"]
                   t == ret1.rows[j]["time"]
               IN  /\ mo.k = "str"
                   /\ Len(mo.s) = 7
                   /\ mo.s[5] = "-"
                   /\ AllDigits(SubSeq(mo.s, 1, 4))
                   /\ AllDigits(SubSeq(mo.s, 6, 7))
                   /\ ParseNat(SubSeq(mo.s, 1, 4)) = YearOf(t)
                   /\ ParseNat(SubSeq(mo.s, 6, 7)) = MonthOf(t)
                   /\ (YearOf(t) = 2025 /\ MonthOf(t) = 3) =>
                          mo.s = <<"2", "0", "2", "5", "-", "0", "3">>
        /\ \A i, j \in DOMAIN ret1.rows :
               (ret1.rows[i]["month"] = ret1.rows[j]["month"])
                   <=> /\ YearOf(ret1.rows[i]["time"]) = YearOf(ret1.rows[j]["time"])
                       /\ MonthOf(ret1.rows[i]["time"]) = MonthOf(ret1.rows[j]["time"])

C10_Witness ==
    /\ cpc = "once"
    /\ ~LacksColumn(T0)
    /\ len(ret1) = 2
    /\ DayOf(ret1.rows[1]["time"]) = 5
    /\ DayOf(ret1.rows[2]["time"]) = 31
    /\ ret1.rows[1]["month"] = Str(<<"2", "0", "2", "5", "-", "0", "3">>)
    /\ ret1.rows[2]["month"] = ret1.rows[1]["month"]

\* ---- read_csv_upload

ParsesUnder(file, enc) == pd_read_csv(file, enc).exc = ""

\* The position of the first encoding of the list the file parses under, 0
\* when there is none.
FirstOK(file, es) ==
    IF \E i \in DOMAIN es : ParsesUnder(file, es[i])
    THEN CHOOSE i \in DOMAIN es :
             ParsesUnder(file, es[i]) /\ \A j \in 1..(i - 1) : ~ParsesUnder(file, es[j])
    ELSE 0

Finished == rd.st \in {"returned", "raised"}

DefaultTried == \E i \in DOMAIN attempts : attempts[i] = Default

\* C6: the encodings are tried strictly in the order of the list, nothing is
\* tried after a success, and the table returned is the one parsed under the
\* first encoding of the list that parses.
C6_Priority ==
    /\ \A i \in DOMAIN attempts : attempts[i] = (rd.encodings \o <<Default>>)[i]
    /\ \A i \in 1..(Len(attempts) - 1) : ~ParsesUnder(rd.file, attempts[i])
    /\ (Finished /\ FirstOK(rd.file, rd.encodings) # 0) =>
           /\ rd.st = "returned"
           /\ attempts = SubSeq(rd.encodings, 1, FirstOK(rd.file, rd.encodings))
           /\ rd.value = pd_read_csv(rd.file, rd.encodings[FirstOK(rd.file, rd.encodings)])

C6_Witness ==
    /\ rd.st = "returned"
    /\ rd.file.data = <<"U", "A">>
    /\ rd.encodings = <<"utf-8", "gb18030", "utf-8-sig">>
    /\ attempts = <<"utf-8">>
    /\ rd.value.text = << <<"U", "utf">>, <<"A", "ascii">> >>
    /\ rd.value.text # pd_read_csv(rd.file, "gb18030").text

\* C7: the default-encoding parse is attempted if and only if every
\* candidate failed, and once; a candidate's failure never leaves the
\* function; the fallback's failure does, as the read error.  An empty
\* buffer fails every candidate and surfaces the fallback's error.
C7_Fallback ==
    /\ DefaultTried =>
           /\ \A i \in DOMAIN rd.encodings : ~ParsesUnder(rd.file, rd.encodings[i])
           /\ attempts = rd.encodings \o <<Default>>
    /\ Finished =>
           (DefaultTried <=> \A i \in DOMAIN rd.encodings : ~ParsesUnder(rd.file, rd.encodings[i]))
    /\ Cardinality({i \in DOMAIN attempts : attempts[i] = Default}) <= 1
    /\ rd.st = "raised" =>
           /\ attempts[Len(attempts)] = Default
           /\ rd.value = pd_read_csv(rd.file, Default)
           /\ rd.value.exc # ""
    /\ (Finished /\ FirstOK(rd.file, rd.encodings) = 0 /\ ~ParsesUnder(rd.file, Default)) =>
           rd.st = "raised"
    /\ (Finished /\ rd.file.data = <<>>) =>
           /\ rd.st = "raised"
           /\ rd.value.exc = "EmptyDataError"
           /\ attempts = rd.encodings \o <<Default>>

C7_Witness ==
    /\ rd.st = "raised"
    /\ rd.file.data = <<>>
    /\ rd.encodings = <<"gb18030", "utf-8-sig", "utf-8">>
    /\ attempts = <<"gb18030", "utf-8-sig", "utf-8", Default>>
    /\ rd.value.exc = "EmptyDataError"

\* ---- Page 1

Shown(kind, label) == \E i \in DOMAIN ui : ui[i].kind = kind /\ ui[i].label = label

Cleaned == \E i \in DOMAIN calls : calls[i] = "clean_bill_v0"

\* C8: a ledger that lacks one of time, merchant, amount (one that has a time
\* column included) never makes the run raise: the run goes through the
\* metrics and the previews to the advisory about the column names, which
\* is shown in that case only.
C8_AsStated ==
    /\ (Cleaned /\ LacksColumn(bill_raw)) => pc # "crashed"
    /\ (Cleaned /\ LacksColumn(bill_raw) /\ pc \in {"done", "crashed", "stopped"}) =>
           /\ pc = "done"
           /\ Shown("metric", "time") /\ Shown("metric", "size") /\ Shown("metric", "quality")
           /\ Shown("dataframe", "bill")
           /\ Shown("warning", "columns")
    /\ Shown("warning", "columns") => (Cleaned /\ LacksColumn(bill_raw))

\* No encoding of the list and no default parse reads the file.
Undecodable(file, es) == FirstOK(file, es) = 0 /\ ~ParsesUnder(file, Default)

\* The run meets a file-level failure: the ledger cannot be decoded, or the
\* uploaded reference-index file cannot, or none was uploaded and the
\* bundled file does not exist.
FileFailure ==
    /\ bill_up.present
    /\ \/ Undecodable(bill_up, <<"gb18030", "utf-8-sig", "utf-8">>)
       \/ cpi_up.present /\ Undecodable(cpi_up, <<"utf-8-sig", "utf-8", "gb18030">>)
       \/ ~cpi_up.present /\ ~disk.present

Times(call) == Cardinality({i \in DOMAIN calls : calls[i] = call})

\* C9: on a file-level failure an error message is shown and the run stops:
\* no read is made again, clean_bill_v0 is not called and no metric or
\* preview is shown; the message for a missing bundled file names the file;
\* the bundled file is consulted only when no reference-index file was
\* uploaded.
C9_FileFailureAborts ==
    /\ FileFailure =>
           /\ ~Cleaned
           /\ \A i \in DOMAIN ui : ui[i].kind \notin {"metric", "dataframe", "success"}
           /\ pc \in {"start", "read_bill", "read_cpi", "read_cpi_upload", "stopped"}
           /\ ~ENABLED Next => (pc = "stopped" /\ ui # <<>> /\ ui[Len(ui)].kind = "error")
    /\ (pc = "stopped") => ~ENABLED Next
    /\ Times("read_csv_upload(bill_up)") <= 1
    /\ Times("read_csv_upload(cpi_up)") <= 1
    /\ Times("read_official_cpi_default") <= 1
    /\ Times("read_official_cpi_default") = 1 => ~cpi_up.present
    /\ Times("read_csv_upload(cpi_up)") = 1 => cpi_up.present
    /\ (pc = "stopped" /\ Times("read_official_cpi_default") = 1 /\ ~disk.present) =>
           /\ ui[Len(ui)].kind = "error"
           /\ \E k \in DOMAIN ui[Len(ui)].body : ui[Len(ui)].body[k] = DEFAULT_CPI

C9_Witness ==
    /\ pc = "stopped"
    /\ bill_up.present
    /\ ~cpi_up.present
    /\ ~disk.present
    /\ calls = <<"read_csv_upload(bill_up)", "read_official_cpi_default">>
    /\ Len(ui) = 1
    /\ ui[1].kind = "error"
    /\ ui[1].body[3] = DEFAULT_CPI

====
